---- MODULE Spec2Model ----
(***************************************************************************)
(* The Scout agent loop: the LangGraph workflow of createScoutWorkflow     *)
(* (agent node, conditional edge, tools node), the tools built by          *)
(* createAisdk5Tools over the ScoutTools schemas, and HttpEnvironment.     *)
(*                                                                         *)
(* Optional values (a missing key, undefined) are sets: {} is absent and   *)
(* {v} is present with value v.                                            *)
(***************************************************************************)
EXTENDS Integers, Sequences, FiniteSets, TLC

VARIABLES
    chat_history,       \* AgentState.chat_history
    agentOutcome,       \* AgentState.agentOutcome (optional)
    latest_screenshot,  \* AgentState.latest_screenshot (optional)
    current_ui_status,  \* AgentState.current_ui_status (optional)
    current_todo_list,  \* AgentState.current_todo_list (optional)
    pc,                 \* node of the graph the run is at: agent, tools, end, failed
    idx,                \* position of executeTools' loop over actions (1-based)
    outputs,            \* executeTools' local outputs array
    inflight,           \* the environment request awaited by the tool's func (optional)
    elapsed,            \* milliseconds the awaited request has been pending
    envLog,             \* the environment requests of the current batch, with what
                        \* the environment did with each
    oracleInput         \* the chat_history handed to the last agent.invoke (optional)

vars == <<chat_history, agentOutcome, latest_screenshot, current_ui_status,
          current_todo_list, pc, idx, outputs, inflight, elapsed, envLog,
          oracleInput>>

agentState == <<chat_history, agentOutcome, latest_screenshot,
                current_ui_status, current_todo_list>>

\* ------------------------------------------------------------------ bounds
MaxCalls == 2     \* longest tool_calls list the oracle proposes
MaxHistory == 1   \* the oracle proposes calls while chat_history is at most this long
Margin == 1       \* how far the sampled coordinates reach around each screen edge
MaxFollowUps == 3 \* longest follow-up list of a sampled message_ask call
TickMs == 65000   \* granularity of the request clock

\* ------------------------------------------------------- optional values
Absent == {}
Some(v) == {v}
Get(o) == CHOOSE v \in o : TRUE

\* JavaScript String(x) of an optional string
String(o) == IF o = Absent THEN "undefined" ELSE Get(o)

\* JavaScript truthiness of an optional string: undefined and "" are falsy
TruthyStr(o) == o # Absent /\ Get(o) # ""

\* --------------------------------------------------------------- registry
ComputerAction ==
    {"key", "hold_key", "type", "cursor_position", "mouse_move",
     "left_mouse_down", "left_mouse_up", "left_click", "left_click_drag",
     "right_click", "middle_click", "double_click", "triple_click",
     "scroll", "wait", "screenshot"}

ScrollDirection == {"up", "down", "left", "right"}

TaskStatus == {"pending", "in_progress", "completed", "cancelled"}

\* the keys of ScoutTools, which createAisdk5Tools turns into the tools array
ToolNames ==
    {"ls", "read", "glob", "grep", "edit", "write", "image_generate",
     "image_edit", "image_search", "web_search", "browser_navigate",
     "web_download", "bash_run", "bash_command_check", "code_template",
     "download_project_file", "github_pr", "socials_search", "computer",
     "message_update", "message_ask", "todo", "lsp", "read_agent", "handoff",
     "github_command"}

\* tools.find((t) => t.name === call.name)
FindTool(name) == name \in ToolNames

ScreenMaxX == 1024
ScreenMaxY == 768

CoordinateBelowMax(c) ==
    /\ Len(c) = 2
    /\ c[1] >= 0 /\ c[1] < ScreenMaxX
    /\ c[2] >= 0 /\ c[2] < ScreenMaxY

\* z.tuple([int 0..1024, int 0..768])
Coordinate(c) ==
    /\ Len(c) = 2
    /\ c[1] >= 0 /\ c[1] <= ScreenMaxX
    /\ c[2] >= 0 /\ c[2] <= ScreenMaxY

\* the z.object part of ScoutTools.computer.parameters
ComputerShape(a) ==
    /\ a.action # Absent /\ Get(a.action) \in ComputerAction
    /\ a.coordinate # Absent => Coordinate(Get(a.coordinate))
    /\ a.duration # Absent => Get(a.duration) > 0
    /\ a.scroll_direction # Absent => Get(a.scroll_direction) \in ScrollDirection
    /\ a.scroll_amount # Absent => Get(a.scroll_amount) > 0
    /\ a.start_coordinate # Absent => Coordinate(Get(a.start_coordinate))

ComputerRefineScrollEither(a) ==
    LET action == Get(a.action) IN
    /\ ~ (/\ action \in {"mouse_move", "left_click", "right_click",
                         "middle_click", "double_click", "triple_click"}
          /\ a.coordinate = Absent)
    /\ ~ (/\ action = "left_click_drag"
          /\ (a.coordinate = Absent \/ a.start_coordinate = Absent))
    /\ ~ (action \in {"type", "key"} /\ ~TruthyStr(a.text))
    /\ ~ (action = "hold_key" /\ (~TruthyStr(a.text) \/ a.duration = Absent))
    /\ ~ (action = "wait" /\ a.duration = Absent)
    /\ ~ (/\ action = "scroll"
          /\ (~TruthyStr(a.scroll_direction) /\ a.scroll_amount = Absent))

\* the .refine of ScoutTools.computer.parameters (true = accepted)
ComputerRefine(a) ==
    LET action == Get(a.action) IN
    /\ ~ (/\ action \in {"mouse_move", "left_click", "right_click",
                         "middle_click", "double_click", "triple_click"}
          /\ a.coordinate = Absent)
    /\ ~ (/\ action = "left_click_drag"
          /\ (a.coordinate = Absent \/ a.start_coordinate = Absent))
    /\ ~ (action \in {"type", "key"} /\ ~TruthyStr(a.text))
    /\ ~ (action = "hold_key" /\ (~TruthyStr(a.text) \/ a.duration = Absent))
    /\ ~ (action = "wait" /\ a.duration = Absent)
    /\ ~ (/\ action = "scroll"
          /\ (~TruthyStr(a.scroll_direction) \/ a.scroll_amount = Absent))

ComputerValid(a) == ComputerShape(a) /\ ComputerRefine(a)

EmojiMaxLen == 4

\* ScoutTools.message_update.parameters
MessageUpdateValid(a) ==
    /\ a.message # Absent /\ Len(Get(a.message)) >= 1
    /\ a.status # Absent /\ Len(Get(a.status)) >= 1
    /\ a.status_emoji # Absent
    /\ Len(Get(a.status_emoji)) >= 1
    /\ Len(Get(a.status_emoji)) <= EmojiMaxLen

\* the Task object schema
Task(t) ==
    /\ Len(t.id) >= 1
    /\ Len(t.title) >= 1
    /\ t.status \in TaskStatus

\* data.tasks.filter((t) => t.status === 'in_progress').length
InProgressCount(tasks) ==
    Cardinality({i \in 1..Len(tasks) : tasks[i].status = "in_progress"})

MaxInProgressTwo(tasks) == InProgressCount(tasks) <= 2

\* the .refine of ScoutTools.todo.parameters
TodoRefine(tasks) == InProgressCount(tasks) <= 1

\* ScoutTools.todo.parameters
TodoValid(a) ==
    /\ a.tasks # Absent
    /\ Len(Get(a.tasks)) >= 1
    /\ \A i \in 1..Len(Get(a.tasks)) : Task(Get(a.tasks)[i])
    /\ TodoRefine(Get(a.tasks))

\* a path, as the sequence of its separators and segments, matches
\* /^\/(?:project\/workspace|home\/scrapybara)\/.*/
AbsolutePath(p) ==
    /\ Len(p) >= 5
    /\ SubSeq(p, 1, 5) \in {<<"/", "project", "/", "workspace", "/">>,
                            <<"/", "home", "/", "scrapybara", "/">>}

\* the InputQuestion object schema
InputQuestion(q) ==
    /\ q.type \in {"text", "number", "date"}
    /\ Len(q.question) >= 1

\* the SelectOption object schema
SelectOption(o) ==
    /\ Len(o.emoji) >= 1 /\ Len(o.emoji) <= EmojiMaxLen
    /\ Len(o.title) >= 1
    /\ Len(o.prompt) >= 1

MinFollowUps == 2

\* the z.object part of ScoutTools.message_ask.parameters
MessageAskShape(a) ==
    /\ a.message # Absent /\ Len(Get(a.message)) >= 1
    /\ a.attachment # Absent => AbsolutePath(Get(a.attachment))
    /\ a.follow_ups_input # Absent =>
         /\ Len(Get(a.follow_ups_input)) >= MinFollowUps
         /\ \A i \in 1..Len(Get(a.follow_ups_input)) :
              InputQuestion(Get(a.follow_ups_input)[i])
    /\ a.follow_ups_select # Absent =>
         /\ Len(Get(a.follow_ups_select)) >= MinFollowUps
         /\ \A i \in 1..Len(Get(a.follow_ups_select)) :
              SelectOption(Get(a.follow_ups_select)[i])

MessageAskAllowsBoth(a) ==
    a.follow_ups_input # Absent \/ a.follow_ups_select # Absent

\* the two .refine of ScoutTools.message_ask.parameters (an array is truthy)
MessageAskRefine(a) ==
    /\ ~ (a.follow_ups_input # Absent /\ a.follow_ups_select # Absent)
    /\ (a.follow_ups_input # Absent \/ a.follow_ups_select # Absent)

MessageAskValid(a) == MessageAskShape(a) /\ MessageAskRefine(a)

\* schema.parseAsync(args) succeeds, for the tools the oracle of this model uses
Validate(name, a) ==
    CASE name = "computer" -> ComputerValid(a)
      [] name = "message_update" -> MessageUpdateValid(a)
      [] name = "message_ask" -> MessageAskValid(a)
      [] name = "todo" -> TodoValid(a)

\* the parsed input handed to func: the arguments with the schema's defaults
Defaults(name, a) ==
    CASE name = "todo" ->
            IF a.request_user_approval = Absent
            THEN [a EXCEPT !.request_user_approval = Some(FALSE)] ELSE a
      [] OTHER -> a

\* -------------------------------------------------------------- documents
\* a JSON value: null, a string, or an object with the keys this system uses
DocNull == [t |-> "null"]
DocStr(s) == [t |-> "string", s |-> s]
EmptyObj ==
    [t |-> "object", screenshot |-> Absent, error |-> Absent, message |-> Absent,
     tool |-> Absent, input |-> Absent, status |-> Absent, raw |-> Absent]

KeyOrder == <<"screenshot", "error", "message", "tool", "input", "status", "raw">>

RECURSIVE StringifyKeys(_, _)
StringifyKeys(d, i) ==
    IF i > Len(KeyOrder) THEN <<>>
    ELSE LET k == KeyOrder[i] IN
         (IF d[k] = Absent THEN <<>> ELSE <<k, Get(d[k])>>) \o StringifyKeys(d, i + 1)

\* JSON.stringify: the text of a document, as a sequence of tokens; an absent
\* (undefined) key is left out
Stringify(d) ==
    CASE d.t = "null" -> <<"null">>
      [] d.t = "string" -> <<"\"", d.s, "\"">>
      [] d.t = "object" -> <<"{">> \o StringifyKeys(d, 1) \o <<"}">>

KeySet == {KeyOrder[i] : i \in 1..Len(KeyOrder)}

KeyPositions(text) == {i \in 2..(Len(text) - 2) : i % 2 = 0}

WellFormedObject(text) ==
    /\ Len(text) >= 2 /\ Len(text) % 2 = 0
    /\ text[1] = "{" /\ text[Len(text)] = "}"
    /\ \A i \in KeyPositions(text) : text[i] \in KeySet

\* a key written twice keeps its last value
ParseObject(text) ==
    [k \in KeySet \cup {"t"} |->
        IF k = "t" THEN "object"
        ELSE LET at == {i \in KeyPositions(text) : text[i] = k} IN
             IF at = {} THEN Absent
             ELSE Some(text[(CHOOSE i \in at : \A j \in at : j <= i) + 1])]

\* JSON.parse succeeds on the text
WellFormed(text) ==
    \/ Len(text) = 1 /\ text[1] = "null"
    \/ Len(text) = 3 /\ text[1] = "\"" /\ text[3] = "\""
    \/ WellFormedObject(text)

\* JSON.parse of a well-formed text
Parse(text) ==
    IF Len(text) = 1 THEN DocNull
    ELSE IF text[1] = "\"" THEN DocStr(text[2])
    ELSE ParseObject(text)

DecodeDropsText(raw) ==
    IF WellFormed(raw) THEN Parse(raw) ELSE EmptyObj

\* executeTools' try { JSON.parse(raw) } catch { { raw } }
Decode(raw) ==
    IF WellFormed(raw) THEN Parse(raw) ELSE [EmptyObj EXCEPT !.raw = Some(raw)]

\* ------------------------------------------------------------ environment
timeoutMs == 65000

Min(a, b) == IF a < b THEN a ELSE b

\* JavaScript truthiness of an optional string key of a response body
BodyKey(body, k) ==
    IF body.t = "object" /\ TruthyStr(body[k]) THEN body[k] ELSE Absent

\* String(body)
BodyString(body) ==
    CASE body.t = "null" -> "null"
      [] body.t = "string" -> body.s
      [] body.t = "object" -> "[object Object]"

\* (body?.error || body?.message || String(body)) || `... status ${status}`;
\* a message is a tuple of its parts
ErrorMessage(body, status) ==
    IF BodyKey(body, "error") # Absent THEN <<Get(BodyKey(body, "error"))>>
    ELSE IF BodyKey(body, "message") # Absent THEN <<Get(BodyKey(body, "message"))>>
    ELSE IF BodyString(body) # "" THEN <<BodyString(body)>>
    ELSE <<"Environment call failed with status ", status>>

\* what fetch can do before the timeout: reject, or resolve with a response;
\* the runtime of this model answers with a screenshot to the computer tool only
Responses(tool) ==
    {[kind |-> "network", status |-> 0, body |-> DocNull]}
    \cup {[kind |-> "http", status |-> 200, body |-> b] :
            b \in {EmptyObj, DocNull}
                  \cup (IF tool = "computer"
                        THEN {[EmptyObj EXCEPT !.screenshot = Some("img1")],
                              [EmptyObj EXCEPT !.screenshot = Some("img2")]}
                        ELSE {})}
    \cup {[kind |-> "http", status |-> 500,
           body |-> [EmptyObj EXCEPT !.error = Some("denied")]]}

TimedOut == [kind |-> "timeout", status |-> 0, body |-> DocNull]

\* HttpEnvironment.executeTool: the body it returns, or the EnvironmentError
\* it throws
ExecuteTool(resp) ==
    CASE resp.kind = "timeout" ->
            [ok |-> FALSE, v |-> <<"Request timed out after ", timeoutMs, "ms">>]
      [] resp.kind = "network" ->
            [ok |-> FALSE, v |-> <<"Network or configuration error: ", "fetch failed">>]
      [] resp.kind = "http" /\ resp.status \notin 200..299 ->
            [ok |-> FALSE, v |-> ErrorMessage(resp.body, resp.status)]
      [] OTHER -> [ok |-> TRUE, v |-> resp.body]

\* the document of func's catch branch
FailureDoc(message, toolName, input) ==
    [EmptyObj EXCEPT !.error = Some(message), !.tool = Some(toolName),
                     !.input = Some(input), !.status = Some("FAILURE")]

FuncBareError(toolName, input, resp) ==
    LET r == ExecuteTool(resp) IN
    IF r.ok THEN Stringify(r.v) ELSE Stringify([EmptyObj EXCEPT !.error = Some(r.v)])

\* createAisdk5Tools' func: always a JSON text
Func(toolName, input, resp) ==
    LET r == ExecuteTool(resp) IN
    IF r.ok THEN Stringify(r.v) ELSE Stringify(FailureDoc(r.v, toolName, input))

\* ------------------------------------------------------------ the oracle
ComputerArgs(action) ==
    [action |-> Some(action), coordinate |-> Absent, text |-> Absent,
     duration |-> Absent, scroll_direction |-> Absent, scroll_amount |-> Absent,
     start_coordinate |-> Absent]

TaskA(status) == [id |-> "1", title |-> "plan", status |-> status]
TaskB(status) == [id |-> "2", title |-> "build", status |-> status]

\* the calls the oracle of this model proposes
Calls ==
    {[name |-> "computer", args |-> ComputerArgs("screenshot")],
     [name |-> "computer",
      args |-> [ComputerArgs("scroll") EXCEPT !.scroll_direction = Some("down")]],
     [name |-> "message_update",
      args |-> [message |-> Some("Scanning files"), status |-> Some("Scanning"),
                status_emoji |-> Some("mag")]],
     [name |-> "todo",
      args |-> [tasks |-> Some(<<TaskA("in_progress"), TaskB("pending")>>),
                request_user_approval |-> Absent]],
     [name |-> "todo",
      args |-> [tasks |-> Some(<<TaskA("in_progress"), TaskB("in_progress")>>),
                request_user_approval |-> Absent]],
     [name |-> "not_a_real_tool", args |-> [query |-> Some("q")]]}

CallLists == UNION {[1..n -> Calls] : n \in 0..MaxCalls}

\* what agent.invoke may return: an AgentOutcome with or without tool_calls
OracleResponses(history) ==
    {[tool_calls |-> Absent], [tool_calls |-> Some(<<>>)]}
    \cup (IF Len(history) <= MaxHistory
          THEN {[tool_calls |-> Some(l)] : l \in CallLists \ {<<>>}}
          ELSE {})

\* --------------------------------------------------------------- the graph
UserTurn ==
    [role |-> "human", content |-> <<[type |-> "text", text |-> <<"task">>]>>]

\* the HumanMessage executeTools builds for a screenshot
ObservationTurn(action, screenshot) ==
    [role |-> "human",
     content |-> <<[type |-> "text",
                    text |-> <<"[System Observation] Screenshot after action: ",
                               action>>],
                   [type |-> "image_url",
                    url |-> <<"data:image/png;base64,", screenshot>>,
                    detail |-> "high"]>>]

AlwaysContinue(ao) == "continue"

\* shouldContinue(state), of state.agentOutcome
shouldContinue(ao) ==
    IF /\ ao # Absent
       /\ Get(ao).tool_calls # Absent
       /\ Len(Get(Get(ao).tool_calls)) > 0
    THEN "continue" ELSE "end"

\* state.agentOutcome?.tool_calls ?? []
Actions(ao) ==
    IF ao # Absent /\ Get(ao).tool_calls # Absent THEN Get(Get(ao).tool_calls) ELSE <<>>

\* output.result.screenshot is truthy
HasScreenshot(result) == result.t = "object" /\ TruthyStr(result.screenshot)

\* reading .screenshot of null raises a TypeError
FoldThrows(outs) ==
    \E i \in 1..Len(outs) : outs[i].toolName = "computer" /\ outs[i].result.t = "null"

NoDelta ==
    [latest_screenshot |-> Absent, current_ui_status |-> Absent,
     current_todo_list |-> Absent, multimodalMessages |-> <<>>]

FoldOneSwapped(acc, output) ==
    IF output.toolName = "computer" /\ HasScreenshot(output.result)
    THEN [acc EXCEPT
            !.latest_screenshot = Some(Get(output.result.screenshot)),
            !.multimodalMessages =
                Append(@, ObservationTurn(String(output.input.action),
                                          Get(output.result.screenshot)))]
    ELSE IF output.toolName = "message_update"
    THEN [acc EXCEPT
            !.current_ui_status =
                Some([message |-> String(output.input.status),
                      status |-> String(output.input.message),
                      emoji |-> String(output.input.status_emoji)])]
    ELSE IF output.toolName = "todo"
    THEN [acc EXCEPT !.current_todo_list = output.input.tasks]
    ELSE acc

FoldOneOnSuccess(acc, output) ==
    IF output.toolName = "computer" /\ HasScreenshot(output.result)
    THEN [acc EXCEPT
            !.latest_screenshot = Some(Get(output.result.screenshot)),
            !.multimodalMessages =
                Append(@, ObservationTurn(String(output.input.action),
                                          Get(output.result.screenshot)))]
    ELSE IF output.result.t = "object" /\ output.result.status = Some("FAILURE")
    THEN acc
    ELSE IF output.toolName = "message_update"
    THEN [acc EXCEPT
            !.current_ui_status =
                Some([message |-> String(output.input.message),
                      status |-> String(output.input.status),
                      emoji |-> String(output.input.status_emoji)])]
    ELSE IF output.toolName = "todo"
    THEN [acc EXCEPT !.current_todo_list = output.input.tasks]
    ELSE acc

\* one pass of executeTools' loop over outputs
FoldOne(acc, output) ==
    IF output.toolName = "computer" /\ HasScreenshot(output.result)
    THEN [acc EXCEPT
            !.latest_screenshot = Some(Get(output.result.screenshot)),
            !.multimodalMessages =
                Append(@, ObservationTurn(String(output.input.action),
                                          Get(output.result.screenshot)))]
    ELSE IF output.toolName = "message_update"
    THEN [acc EXCEPT
            !.current_ui_status =
                Some([message |-> String(output.input.message),
                      status |-> String(output.input.status),
                      emoji |-> String(output.input.status_emoji)])]
    ELSE IF output.toolName = "todo"
    THEN [acc EXCEPT !.current_todo_list = output.input.tasks]
    ELSE acc

RECURSIVE FoldBackwards(_, _, _)
FoldBackwards(outs, i, acc) ==
    IF i > Len(outs) THEN acc
    ELSE FoldBackwards(outs, i + 1, FoldOne(acc, outs[Len(outs) + 1 - i]))

\* executeTools' loop over outputs
RECURSIVE Fold(_, _, _)
Fold(outs, i, acc) ==
    IF i > Len(outs) THEN acc ELSE Fold(outs, i + 1, FoldOne(acc, outs[i]))

ChatHistoryDeltaAlways(history, messages) == Some(history \o messages)

\* newState.chat_history, set only when multimodalMessages is not empty
ChatHistoryDelta(history, messages) ==
    IF Len(messages) > 0 THEN Some(history \o messages) ELSE Absent

KeepLastTurn(left, right) ==
    LET all == left \o right IN SubSeq(all, Len(all), Len(all))

\* channels.chat_history
ChatHistoryReducer(left, right) == left \o right

\* the channels (_left, right) => right
LastValue(left, right) == right

\* a channel after a node's partial state: the reducer runs only when the
\* partial state writes the key
MergeHistory(old, delta) ==
    IF delta = Absent THEN old ELSE ChatHistoryReducer(old, Get(delta))

MergeValue(old, delta) ==
    IF delta = Absent THEN old ELSE LastValue(old, delta)

CurrentCall == Actions(agentOutcome)[idx]

Dispatching == pc = "tools" /\ inflight = Absent /\ idx <= Len(Actions(agentOutcome))

Init ==
    /\ chat_history \in {<<>>, <<UserTurn>>}
    /\ agentOutcome = Absent
    /\ latest_screenshot = Absent
    /\ current_ui_status = Absent
    /\ current_todo_list = Absent
    /\ pc = "agent"
    /\ idx = 1
    /\ outputs = <<>>
    /\ inflight = Absent
    /\ elapsed = 0
    /\ envLog = <<>>
    /\ oracleInput = Absent

\* the agent node (runAgent), the merge of its partial state, and the
\* conditional edge
RunAgent ==
    /\ pc = "agent"
    /\ \E response \in OracleResponses(chat_history) :
         agentOutcome' = MergeValue(agentOutcome, Some(response))
    /\ oracleInput' = Some(chat_history)
    /\ pc' = IF shouldContinue(agentOutcome') = "continue" THEN "tools" ELSE "end"
    /\ UNCHANGED <<chat_history, latest_screenshot, current_ui_status,
                   current_todo_list, idx, outputs, inflight, elapsed, envLog>>

AbortOnUnknown ==
    /\ Dispatching
    /\ ~FindTool(CurrentCall.name)
    /\ idx' = Len(Actions(agentOutcome)) + 1
    /\ UNCHANGED <<agentState, pc, outputs, inflight, elapsed, envLog,
                   oracleInput>>

\* if (!tool) continue
SkipUnknown ==
    /\ Dispatching
    /\ ~FindTool(CurrentCall.name)
    /\ idx' = idx + 1
    /\ UNCHANGED <<agentState, pc, outputs, inflight, elapsed, envLog,
                   oracleInput>>

InvokeRejectedMergesPartial ==
    /\ Dispatching
    /\ FindTool(CurrentCall.name)
    /\ ~Validate(CurrentCall.name, CurrentCall.args)
    /\ pc' = "failed"
    /\ LET newState == Fold(outputs, 1, NoDelta) IN
         /\ current_ui_status' = MergeValue(current_ui_status, newState.current_ui_status)
         /\ current_todo_list' = MergeValue(current_todo_list, newState.current_todo_list)
    /\ UNCHANGED <<chat_history, agentOutcome, latest_screenshot, idx, outputs,
                   inflight, elapsed, envLog, oracleInput>>

\* tool.invoke(call.args) with arguments the schema rejects: the tool raises
\* before func runs, and executeTools does not catch it
InvokeRejected ==
    /\ Dispatching
    /\ FindTool(CurrentCall.name)
    /\ ~Validate(CurrentCall.name, CurrentCall.args)
    /\ pc' = "failed"
    /\ UNCHANGED <<agentState, idx, outputs, inflight, elapsed, envLog,
                   oracleInput>>

\* tool.invoke(call.args) with accepted arguments: func sends the request
InvokeStart ==
    /\ Dispatching
    /\ FindTool(CurrentCall.name)
    /\ Validate(CurrentCall.name, CurrentCall.args)
    /\ LET request == [tool |-> CurrentCall.name,
                       input |-> Defaults(CurrentCall.name, CurrentCall.args)]
       IN /\ inflight' = Some(request)
          /\ envLog' = Append(envLog, [request |-> request, response |-> Absent])
    /\ elapsed' = 0
    /\ UNCHANGED <<agentState, pc, idx, outputs, oracleInput>>

\* time passes while the request is pending
Tick ==
    /\ pc = "tools"
    /\ inflight # Absent
    /\ elapsed < timeoutMs
    /\ elapsed' = Min(elapsed + TickMs, timeoutMs)
    /\ UNCHANGED <<agentState, pc, idx, outputs, inflight, envLog, oracleInput>>

\* the awaited tool.invoke returns raw; it is decoded and pushed on outputs
Complete(resp) ==
    LET request == Get(inflight)
        raw == Func(request.tool, request.input, resp)
    IN /\ outputs' = Append(outputs, [toolName |-> CurrentCall.name,
                                      result |-> Decode(raw),
                                      input |-> CurrentCall.args])
       /\ idx' = idx + 1
       /\ inflight' = Absent
       /\ elapsed' = 0
       /\ envLog' = [envLog EXCEPT ![Len(envLog)].response = Some(resp)]
       /\ UNCHANGED <<agentState, pc, oracleInput>>

\* fetch settles before the timeout
EnvRespond ==
    /\ pc = "tools"
    /\ inflight # Absent
    /\ elapsed < timeoutMs
    /\ \E resp \in Responses(Get(inflight).tool) : Complete(resp)

\* AbortSignal.timeout(timeoutMs) fires
EnvTimeout ==
    /\ pc = "tools"
    /\ inflight # Absent
    /\ elapsed >= timeoutMs
    /\ Complete(TimedOut)

BatchDone == pc = "tools" /\ inflight = Absent /\ idx > Len(Actions(agentOutcome))

\* the rest of executeTools (the loop over outputs) and the merge of the
\* partial state it returns; the edge tools -> agent. The locals of executeTools
\* end with the call.
Merge ==
    /\ BatchDone
    /\ ~FoldThrows(outputs)
    /\ LET newState == Fold(outputs, 1, NoDelta) IN
         /\ chat_history' =
               MergeHistory(chat_history,
                            ChatHistoryDelta(chat_history, newState.multimodalMessages))
         /\ latest_screenshot' = MergeValue(latest_screenshot, newState.latest_screenshot)
         /\ current_ui_status' = MergeValue(current_ui_status, newState.current_ui_status)
         /\ current_todo_list' = MergeValue(current_todo_list, newState.current_todo_list)
    /\ pc' = "agent"
    /\ idx' = 1
    /\ outputs' = <<>>
    /\ envLog' = <<>>
    /\ UNCHANGED <<agentOutcome, inflight, elapsed, oracleInput>>

\* the loop over outputs raises: nothing is returned, nothing is merged
MergeThrows ==
    /\ BatchDone
    /\ FoldThrows(outputs)
    /\ pc' = "failed"
    /\ UNCHANGED <<agentState, idx, outputs, inflight, elapsed, envLog,
                   oracleInput>>

Next ==
    \/ RunAgent
    \/ SkipUnknown
    \/ InvokeRejected
    \/ InvokeStart
    \/ Tick
    \/ EnvRespond
    \/ EnvTimeout
    \/ Merge
    \/ MergeThrows

Spec == Init /\ [][Next]_vars

\* ------------------------------------------------ a deterministic oracle
\* runAgent with an agent whose response is a function of the chat_history it
\* is given: asked again with the conversation of its last invocation, it
\* returns the response of that invocation (a conversation only grows, so an
\* earlier one never comes back)
RunAgentDeterministic ==
    /\ pc = "agent"
    /\ \E response \in OracleResponses(chat_history) :
         /\ oracleInput = Some(chat_history) => response = Get(agentOutcome)
         /\ agentOutcome' = MergeValue(agentOutcome, Some(response))
    /\ oracleInput' = Some(chat_history)
    /\ pc' = IF shouldContinue(agentOutcome') = "continue" THEN "tools" ELSE "end"
    /\ UNCHANGED <<chat_history, latest_screenshot, current_ui_status,
                   current_todo_list, idx, outputs, inflight, elapsed, envLog>>

NextDeterministic ==
    \/ RunAgentDeterministic
    \/ SkipUnknown
    \/ InvokeRejected
    \/ InvokeStart
    \/ Tick
    \/ EnvRespond
    \/ EnvTimeout
    \/ Merge
    \/ MergeThrows

SpecDeterministic == Init /\ [][NextDeterministic]_vars

\* ------------------------------------------- the fold over a finished batch
\* calls that all pass validation, two of each kind that writes a channel
FoldCalls ==
    {[name |-> "computer", args |-> ComputerArgs("screenshot")],
     [name |-> "message_update",
      args |-> [message |-> Some("Scanning files"), status |-> Some("Scanning"),
                status_emoji |-> Some("mag")]],
     [name |-> "message_update",
      args |-> [message |-> Some("Writing report"), status |-> Some("Writing"),
                status_emoji |-> Some("pen")]],
     [name |-> "todo",
      args |-> [tasks |-> Some(<<TaskA("in_progress"), TaskB("pending")>>),
                request_user_approval |-> Absent]],
     [name |-> "todo",
      args |-> [tasks |-> Some(<<TaskA("completed"), TaskB("in_progress")>>),
                request_user_approval |-> Absent]]}

FoldCallLists == UNION {[1..n -> FoldCalls] : n \in 1..MaxCalls}

\* the output executeTools pushes for a dispatched call the environment
\* answered with resp
OutputOf(call, resp) ==
    [toolName |-> call.name,
     result |-> Decode(Func(call.name, Defaults(call.name, call.args), resp)),
     input |-> call.args]

\* AgentState before the batch: as the run starts, or as an earlier batch of
\* these calls left it
PriorStates ==
    {[chat_history |-> h[1], latest_screenshot |-> h[2],
      current_ui_status |-> u, current_todo_list |-> t] :
        h \in {<<(<<UserTurn>>), Absent>>,
               <<(<<UserTurn, ObservationTurn("screenshot", "img1")>>),
                 Some("img1")>>},
        u \in {Absent, Some([message |-> "Scanning files", status |-> "Scanning",
                             emoji |-> "mag"])},
        t \in {Absent, Some(<<TaskA("in_progress"), TaskB("pending")>>)}}

\* executeTools after its dispatch loop: every call of the proposal was
\* registered and valid and has its output
InitFold ==
    \E prior \in PriorStates, l \in FoldCallLists :
      \E rs \in [1..Len(l) -> Responses("computer") \cup {TimedOut}] :
        /\ \A i \in 1..Len(l) : rs[i] \in Responses(l[i].name) \cup {TimedOut}
        /\ chat_history = prior.chat_history
        /\ latest_screenshot = prior.latest_screenshot
        /\ current_ui_status = prior.current_ui_status
        /\ current_todo_list = prior.current_todo_list
        /\ agentOutcome = Some([tool_calls |-> Some(l)])
        /\ pc = "tools"
        /\ idx = Len(l) + 1
        /\ outputs = [i \in 1..Len(l) |-> OutputOf(l[i], rs[i])]
        /\ inflight = Absent
        /\ elapsed = 0
        /\ envLog = [i \in 1..Len(l) |->
                       [request |-> [tool |-> l[i].name,
                                     input |-> Defaults(l[i].name, l[i].args)],
                        response |-> Some(rs[i])]]
        /\ oracleInput = Some(prior.chat_history)

NextFold ==
    \/ Merge
    \/ MergeThrows

SpecFold == InitFold /\ [][NextFold]_vars

\* ------------------------------------ executeTools over tools of any kind
\* documents a tool may return as JSON text
Docs ==
    {DocNull, DocStr("done"), DocStr(""), EmptyObj,
     [EmptyObj EXCEPT !.screenshot = Some("img1")],
     FailureDoc(<<"denied">>, "computer", ComputerArgs("screenshot"))}

\* what tool.invoke may resolve with: the text, and the document it is the
\* JSON text of, if any
RawCases ==
    {[text |-> Stringify(d), doc |-> Some(d)] : d \in Docs}
    \cup {[text |-> <<"{", "error", "first", "error", "second", "}">>,
           doc |-> Some([EmptyObj EXCEPT !.error = Some("second")])]}
    \cup {[text |-> t, doc |-> Absent] :
            t \in {<<>>, <<"{", "screenshot">>, <<"Internal Server Error">>}}

\* the awaited tool.invoke of a tool of any kind resolves; the text is decoded
\* and pushed on outputs
ToolReturns ==
    /\ pc = "tools"
    /\ inflight # Absent
    /\ \E c \in RawCases :
         /\ outputs' = Append(outputs, [toolName |-> CurrentCall.name,
                                        result |-> Decode(c.text),
                                        input |-> CurrentCall.args])
         /\ envLog' = [envLog EXCEPT ![Len(envLog)].response = Some(c)]
    /\ idx' = idx + 1
    /\ inflight' = Absent
    /\ elapsed' = 0
    /\ UNCHANGED <<agentState, pc, oracleInput>>

NextDecode ==
    \/ RunAgent
    \/ SkipUnknown
    \/ InvokeRejected
    \/ InvokeStart
    \/ ToolReturns
    \/ Merge
    \/ MergeThrows

SpecDecode == Init /\ [][NextDecode]_vars

\* ------------------------------------------- validation of a proposed call
\* integers around the ends of 0..max, and one well inside
Samples(max) ==
    ((0 - Margin)..Margin) \cup ((max - Margin)..(max + Margin)) \cup {10}

CoordinateSamples == {<<x, y>> : x \in Samples(ScreenMaxX), y \in Samples(ScreenMaxY)}

Optional(S) == {Absent} \cup {Some(v) : v \in S}

\* pointer calls with every sampled coordinate and start coordinate
PointerCalls ==
    {[name |-> "computer",
      args |-> [ComputerArgs(action) EXCEPT !.coordinate = c,
                                            !.start_coordinate = sc]] :
        action \in {"left_click", "left_click_drag"},
        c \in Optional(CoordinateSamples), sc \in Optional(CoordinateSamples)}

\* computer calls of every action with every choice of optional fields
ActionCalls ==
    {[name |-> "computer",
      args |-> [action |-> Some(action), coordinate |-> c, text |-> t,
                duration |-> d, scroll_direction |-> sd, scroll_amount |-> sa,
                start_coordinate |-> sc]] :
        action \in ComputerAction,
        c \in Optional({<<5, 5>>}), t \in Optional({"", "a"}),
        d \in Optional({2}), sd \in Optional({"down"}), sa \in Optional({3}),
        sc \in Optional({<<5, 5>>})}

InputQuestions ==
    {[type |-> "text", question |-> "Which folder?"],
     [type |-> "date", question |-> ""]}

SelectOptions ==
    {[emoji |-> "ok", title |-> "Ship", prompt |-> "Ship it"],
     [emoji |-> "emoji", title |-> "Hold", prompt |-> "Hold it"]}

ListsOf(S) == UNION {[1..n -> S] : n \in 0..MaxFollowUps}

AskCalls ==
    {[name |-> "message_ask",
      args |-> [message |-> m, attachment |-> at, follow_ups_input |-> fi,
                follow_ups_select |-> fs]] :
        m \in Optional({"", "Done?"}),
        at \in Optional({<<"/", "project", "/", "workspace", "/", "report.md">>,
                         <<"/", "etc", "/", "passwd">>}),
        fi \in Optional(ListsOf(InputQuestions)),
        fs \in Optional(ListsOf(SelectOptions))}

ValidationCalls == PointerCalls \cup ActionCalls \cup AskCalls

\* executeTools entered with a proposal of one call
InitValidate ==
    \E call \in ValidationCalls :
        /\ chat_history = <<UserTurn>>
        /\ agentOutcome = Some([tool_calls |-> Some(<<call>>)])
        /\ latest_screenshot = Absent
        /\ current_ui_status = Absent
        /\ current_todo_list = Absent
        /\ pc = "tools"
        /\ idx = 1
        /\ outputs = <<>>
        /\ inflight = Absent
        /\ elapsed = 0
        /\ envLog = <<>>
        /\ oracleInput = Some(<<UserTurn>>)

NextValidate ==
    \/ InvokeRejected
    \/ InvokeStart

SpecValidate == InitValidate /\ [][NextValidate]_vars

\* ------------------------------------------------------------ properties
IsFailureDoc(result) == result.t = "object" /\ result.status = Some("FAILURE")

IsFailureResponse(resp) ==
    resp.kind \in {"network", "timeout"} \/ resp.status \notin 200..299

Registered(call) == call.name \in ToolNames

\* a part of the turn's content is the document
TurnCarries(turn, doc) == \E k \in 1..Len(turn.content) : turn.content[k] = doc

\* C1: after every oracle invocation the run moves to tools when the stored
\* proposal holds at least one call and to end when its call list is absent
\* or empty, whatever the other fields of the state are.
RoutingFollowsProposal ==
    [][(pc = "agent" /\ pc' # "agent") =>
        LET proposal == Get(agentOutcome').tool_calls IN
        /\ (proposal = Absent \/ Get(proposal) = <<>>) => pc' = "end"
        /\ (proposal # Absent /\ Len(Get(proposal)) >= 1) => pc' = "tools"]_vars

RoutedToEndWithStateSet ==
    /\ pc = "end"
    /\ Get(agentOutcome).tool_calls = Absent
    /\ current_ui_status # Absent
    /\ latest_screenshot # Absent

\* C2: the conversation is append-only: every step leaves it at least as long
\* as it was, with the conversation before the step as an unmodified prefix.
ConversationAppendOnly ==
    [][/\ Len(chat_history') >= Len(chat_history)
       /\ SubSeq(chat_history', 1, Len(chat_history)) = chat_history]_vars

ConversationGrewTwice ==
    /\ pc = "agent"
    /\ Len(chat_history) >= 3
    /\ chat_history[1] # UserTurn

\* C3: merging a batch that is one computer call whose decoded result carries
\* an image sets lastObservation to the image and makes the conversation the
\* prior conversation followed by exactly one new turn.
ScreenshotAppendsOneTurn ==
    [][(/\ BatchDone /\ pc' = "agent"
        /\ Len(Actions(agentOutcome)) = 1
        /\ Len(outputs) = 1
        /\ outputs[1].toolName = "computer"
        /\ HasScreenshot(outputs[1].result)) =>
        LET image == Get(outputs[1].result.screenshot) IN
        /\ latest_screenshot' = Some(image)
        /\ chat_history' =
             Append(chat_history,
                    ObservationTurn(Get(outputs[1].input.action), image))]_vars

\* C4: a registered call whose arguments violate the contract yields an
\* outcome holding an error document (messages, tool name, original input)
\* and the batch goes on.
ViolationBecomesErrorOutcome ==
    [][(/\ Dispatching
        /\ Registered(CurrentCall)
        /\ ~Validate(CurrentCall.name, CurrentCall.args)) =>
        /\ pc' = "tools"
        /\ idx' = idx + 1
        /\ Len(outputs') = Len(outputs) + 1
        /\ LET result == outputs'[Len(outputs')].result IN
             /\ result.error # Absent
             /\ result.tool = Some(CurrentCall.name)
             /\ result.input = Some(CurrentCall.args)]_vars

ErrorVisibleToOracle ==
    [][/\ (pc = "agent" /\ pc' # "agent") => oracleInput' = Some(chat_history)
       /\ (BatchDone /\ pc' = "agent") =>
            \A i \in 1..Len(outputs) :
              IsFailureDoc(outputs[i].result) =>
                \E j \in 1..Len(chat_history') :
                  TurnCarries(chat_history'[j], outputs[i].result)]_vars

\* C7: the task list never holds more than one in_progress task, and a todo
\* call with two or more never reaches the environment or the outputs.
AtMostOneInProgress ==
    /\ current_todo_list # Absent => InProgressCount(Get(current_todo_list)) <= 1
    /\ \A i \in 1..Len(outputs) :
         outputs[i].toolName = "todo" =>
           InProgressCount(Get(outputs[i].input.tasks)) <= 1
    /\ \A i \in 1..Len(envLog) :
         envLog[i].request.tool = "todo" =>
           InProgressCount(Get(envLog[i].request.input.tasks)) <= 1

TwoInProgressRejected ==
    /\ pc = "failed"
    /\ idx <= Len(Actions(agentOutcome))
    /\ CurrentCall.name = "todo"
    /\ InProgressCount(Get(CurrentCall.args.tasks)) = 2
    /\ current_todo_list # Absent
    /\ InProgressCount(Get(current_todo_list)) = 1

OutputCalls(outs) ==
    [i \in 1..Len(outs) |-> [name |-> outs[i].toolName, args |-> outs[i].input]]

\* C8: a call with an unregistered name changes nothing but the position in
\* the batch: the outcomes and the environment requests are those of the
\* registered calls handled so far, in order.
UnknownCallLeavesNoTrace ==
    /\ [](pc = "tools" =>
            LET handled == SelectSeq(SubSeq(Actions(agentOutcome), 1, idx - 1),
                                     Registered)
            IN /\ OutputCalls(outputs) = handled
               /\ Len(envLog) = Len(outputs) + (IF inflight = Absent THEN 0 ELSE 1)
               /\ \A i \in 1..Len(outputs) : envLog[i].request.tool = handled[i].name)
    /\ [][(Dispatching /\ ~Registered(CurrentCall)) =>
            /\ idx' = idx + 1
            /\ UNCHANGED <<agentState, pc, outputs, inflight, envLog>>]_vars

CallAfterUnknownDispatched ==
    /\ BatchDone
    /\ Len(Actions(agentOutcome)) = 2
    /\ ~Registered(Actions(agentOutcome)[1])
    /\ Len(outputs) = 1
    /\ Len(envLog) = 1

\* C9: merging a batch that is one valid message_update call sets the status
\* to {message, status, emoji} of the call's input and leaves conversation,
\* screenshot and task list as they were.
MessageUpdateSetsStatusOnly ==
    [][(/\ BatchDone
        /\ Len(Actions(agentOutcome)) = 1
        /\ Actions(agentOutcome)[1].name = "message_update"
        /\ Validate("message_update", Actions(agentOutcome)[1].args)) =>
        LET input == Actions(agentOutcome)[1].args IN
        /\ pc' = "agent"
        /\ current_ui_status' = Some([message |-> Get(input.message),
                                      status |-> Get(input.status),
                                      emoji |-> Get(input.status_emoji)])
        /\ UNCHANGED <<chat_history, latest_screenshot, current_todo_list>>]_vars

StatusMergedAfterSingleUpdate ==
    /\ pc = "agent"
    /\ Len(Actions(agentOutcome)) = 1
    /\ Actions(agentOutcome)[1].name = "message_update"
    /\ current_ui_status # Absent
    /\ chat_history = <<UserTurn>>

\* C10: deciding and acting alternate from deciding; acting is always
\* followed by deciding, and end is entered only from a deciding step whose
\* proposal is empty or absent.
StrictAlternation ==
    [][/\ pc = "agent" => pc' \in {"tools", "end"}
       /\ pc = "tools" => pc' \in {"tools", "agent"}
       /\ (pc # "end" /\ pc' = "end") =>
            pc = "agent" /\ Len(Actions(agentOutcome')) = 0]_vars

\* the last position of a non-empty set of positions
Last(S) == CHOOSE m \in S : \A k \in S : k <= m

WritesOf(outs, tool) == {i \in 1..Len(outs) : outs[i].toolName = tool}

ImagesOf(outs) ==
    {i \in WritesOf(outs, "computer") : HasScreenshot(outs[i].result)}

StatusOf(input) ==
    [message |-> Get(input.message), status |-> Get(input.status),
     emoji |-> Get(input.status_emoji)]

\* C11: at the merge of a batch each of screenshot, status and task list
\* takes the value of the last outcome of the batch that writes it, in
\* proposal order, and keeps its prior value when no outcome writes it.
LastWriteWins ==
    [][(BatchDone /\ pc' = "agent") =>
        LET images == ImagesOf(outputs)
            updates == WritesOf(outputs, "message_update")
            todos == WritesOf(outputs, "todo")
        IN /\ OutputCalls(outputs) = Actions(agentOutcome)
           /\ latest_screenshot' =
                 IF images = {} THEN latest_screenshot
                 ELSE outputs[Last(images)].result.screenshot
           /\ current_ui_status' =
                 IF updates = {} THEN current_ui_status
                 ELSE Some(StatusOf(outputs[Last(updates)].input))
           /\ current_todo_list' =
                 IF todos = {} THEN current_todo_list
                 ELSE outputs[Last(todos)].input.tasks]_vars

SecondStatusWonOthersKept ==
    /\ pc = "agent"
    /\ Len(Actions(agentOutcome)) = 2
    /\ Actions(agentOutcome)[1].name = "message_update"
    /\ Actions(agentOutcome)[2].name = "message_update"
    /\ Actions(agentOutcome)[1].args # Actions(agentOutcome)[2].args
    /\ current_ui_status = Some(StatusOf(Actions(agentOutcome)[2].args))
    /\ latest_screenshot = Some("img1")
    /\ current_todo_list = Some(<<TaskA("in_progress"), TaskB("pending")>>)

\* C12: decoding a raw result never fails and keeps everything: a text that
\* is the JSON text of a document decodes to exactly that document, any other
\* text decodes to {raw: text}, and every call that returned has exactly one
\* output.
DecodeIsTotalAndLossless ==
    /\ [](/\ Len(outputs) = Len(envLog) - (IF inflight = Absent THEN 0 ELSE 1)
          /\ \A i \in 1..Len(outputs) :
               LET returned == Get(envLog[i].response) IN
               outputs[i].result =
                 IF returned.doc # Absent THEN Get(returned.doc)
                 ELSE [EmptyObj EXCEPT !.raw = Some(returned.text)])
    /\ [][(inflight # Absent /\ inflight' = Absent) =>
            /\ pc' = "tools"
            /\ Len(outputs') = Len(outputs) + 1]_vars

MalformedThenErrorDocDecoded ==
    /\ BatchDone
    /\ Len(outputs) = 2
    /\ Get(envLog[1].response).text = <<"{", "screenshot">>
    /\ outputs[1].result.raw = Some(<<"{", "screenshot">>)
    /\ Get(envLog[2].response).doc # Absent
    /\ IsFailureDoc(outputs[2].result)

\* the tool's schema lets the call through to func / raises on it
Accepted == inflight' # Absent /\ pc' = "tools"
Rejected == inflight' = Absent /\ pc' = "failed"

OnScreen(c) == 0 <= c[1] /\ c[1] <= 1024 /\ 0 <= c[2] /\ c[2] <= 768

\* C13: a pointer call whose coordinate (and, when given, start coordinate)
\* are integer pairs is accepted if and only if each pair (x, y) has
\* 0 <= x <= 1024 and 0 <= y <= 768.
CoordinateAcceptedIffOnScreen ==
    [][(/\ Dispatching
        /\ CurrentCall.name = "computer"
        /\ Get(CurrentCall.args.action) \in {"left_click", "left_click_drag"}
        /\ CurrentCall.args.coordinate # Absent
        /\ (Get(CurrentCall.args.action) = "left_click_drag"
              => CurrentCall.args.start_coordinate # Absent)) =>
        LET a == CurrentCall.args
            onScreen == /\ OnScreen(Get(a.coordinate))
                        /\ a.start_coordinate # Absent =>
                             OnScreen(Get(a.start_coordinate))
        IN /\ onScreen => Accepted
           /\ ~onScreen => Rejected]_vars

DragBetweenCornersAccepted ==
    /\ inflight # Absent
    /\ Get(inflight).tool = "computer"
    /\ Get(inflight).input.action = Some("left_click_drag")
    /\ Get(inflight).input.coordinate = Some(<<1024, 768>>)
    /\ Get(inflight).input.start_coordinate = Some(<<0, 0>>)

\* exactly one of the two follow-up lists is supplied and it has at least two
\* entries, all well-formed
ExactlyOneFollowUpList(a) ==
    \/ /\ a.follow_ups_input # Absent /\ a.follow_ups_select = Absent
       /\ Len(Get(a.follow_ups_input)) >= 2
       /\ \A i \in 1..Len(Get(a.follow_ups_input)) :
            InputQuestion(Get(a.follow_ups_input)[i])
    \/ /\ a.follow_ups_select # Absent /\ a.follow_ups_input = Absent
       /\ Len(Get(a.follow_ups_select)) >= 2
       /\ \A i \in 1..Len(Get(a.follow_ups_select)) :
            SelectOption(Get(a.follow_ups_select)[i])

NonEmptyAsk ==
    /\ Dispatching
    /\ CurrentCall.name = "message_ask"
    /\ CurrentCall.args.message # Absent
    /\ Get(CurrentCall.args.message) # ""

\* C14 as stated: a message_ask call with a non-empty message is accepted if
\* and only if exactly one of follow_ups_input and follow_ups_select is
\* supplied and the supplied one has at least two well-formed entries.
AskAcceptedIffOneFollowUpList ==
    [][NonEmptyAsk =>
        /\ ExactlyOneFollowUpList(CurrentCall.args) => Accepted
        /\ ~ExactlyOneFollowUpList(CurrentCall.args) => Rejected]_vars

\* C14, amended: a message_ask call with a non-empty message is accepted if
\* and only if exactly one of follow_ups_input and follow_ups_select is
\* supplied, the supplied one has at least two well-formed entries, and the
\* attachment, when supplied, is a path under an allowed root.
AskAcceptedIffOneListAndGoodAttachment ==
    [][NonEmptyAsk =>
        LET a == CurrentCall.args
            ok == /\ ExactlyOneFollowUpList(a)
                  /\ a.attachment # Absent => AbsolutePath(Get(a.attachment))
        IN /\ ok => Accepted
           /\ ~ok => Rejected]_vars

AskWithSelectListAccepted ==
    /\ inflight # Absent
    /\ Get(inflight).tool = "message_ask"
    /\ Get(inflight).input.follow_ups_input = Absent
    /\ Get(inflight).input.follow_ups_select # Absent
    /\ Len(Get(Get(inflight).input.follow_ups_select)) = 2
    /\ Get(inflight).input.attachment # Absent

\* the requirement set of the call's action is not met
MissingRequirement(a) ==
    LET action == Get(a.action) IN
    \/ action = "scroll" /\ (a.scroll_direction = Absent \/ a.scroll_amount = Absent)
    \/ action = "wait" /\ a.duration = Absent
    \/ action = "hold_key" /\ (a.text = Absent \/ a.duration = Absent)
    \/ action \in {"type", "key"} /\ (a.text = Absent \/ a.text = Some(""))
    \/ /\ action \in {"left_click", "right_click", "middle_click",
                       "double_click", "triple_click", "mouse_move"}
       /\ a.coordinate = Absent
    \/ /\ action = "left_click_drag"
       /\ (a.coordinate = Absent \/ a.start_coordinate = Absent)

\* C15: a computer call that lacks a field its action requires is rejected
\* whatever other optional fields it carries, and a screenshot,
\* cursor_position, left_mouse_down or left_mouse_up call with no optional
\* field is accepted.
ActionRequirementsEnforced ==
    [][(Dispatching /\ CurrentCall.name = "computer") =>
        LET a == CurrentCall.args IN
        /\ MissingRequirement(a) => Rejected
        /\ (/\ Get(a.action) \in {"screenshot", "cursor_position",
                                   "left_mouse_down", "left_mouse_up"}
            /\ a = ComputerArgs(Get(a.action))) => Accepted]_vars

ScrollWithoutAmountRejected ==
    /\ pc = "failed"
    /\ CurrentCall.name = "computer"
    /\ CurrentCall.args.action = Some("scroll")
    /\ CurrentCall.args.scroll_direction = Some("down")
    /\ CurrentCall.args.scroll_amount = Absent
    /\ CurrentCall.args.coordinate # Absent
    /\ CurrentCall.args.text = Some("a")
    /\ CurrentCall.args.duration # Absent

ValidCall(call) == Registered(call) /\ Validate(call.name, call.args)

\* C16: when an acting step is over, the environment requests of the step
\* are exactly the proposed calls that are registered and valid, in proposal
\* order and once each; meanwhile at most one request is pending, and it is
\* the last one sent.
EnvCallsAreTheValidCalls ==
    /\ \A i \in 1..Len(envLog) :
         envLog[i].response = Absent => (i = Len(envLog) /\ inflight # Absent)
    /\ (pc = "failed" \/ BatchDone) =>
         LET valid == SelectSeq(Actions(agentOutcome), ValidCall) IN
         /\ Len(envLog) = Len(valid)
         /\ \A i \in 1..Len(valid) :
              envLog[i].request = [tool |-> valid[i].name,
                                   input |-> Defaults(valid[i].name, valid[i].args)]

\* C17: during an acting step AgentState changes only in the merge that
\* follows the finished batch; no dispatch step changes a field, and a step
\* abandoned by an exception merges nothing, so the state (the conversation
\* the oracle last saw included) is as it was when the step began.
StateChangesOnlyAtMerge ==
    /\ [](pc \in {"tools", "failed"} => oracleInput = Some(chat_history))
    /\ [][/\ (pc = "tools" /\ ~(BatchDone /\ pc' = "agent")) =>
               UNCHANGED agentState
          /\ pc' = "failed" => UNCHANGED agentState]_vars

AbandonedAfterStatusCall ==
    /\ pc = "failed"
    /\ idx = 2
    /\ Len(outputs) = 1
    /\ outputs[1].toolName = "message_update"
    /\ current_ui_status = Absent

CallsTo(calls, tool) == {i \in 1..Len(calls) : calls[i].name = tool}

\* C18: the status and the task list merged after a batch are functions of
\* the names and inputs of the proposed calls alone: the last message_update
\* call gives the status and the last todo call the task list, whatever the
\* environment answered, a failure included.
StatusAndTasksFromInputAlone ==
    [][(BatchDone /\ pc' = "agent") =>
        LET calls == Actions(agentOutcome)
            updates == CallsTo(calls, "message_update")
            todos == CallsTo(calls, "todo")
        IN /\ current_ui_status' =
                 IF updates = {} THEN current_ui_status
                 ELSE Some(StatusOf(calls[Last(updates)].args))
           /\ current_todo_list' =
                 IF todos = {} THEN current_todo_list
                 ELSE calls[Last(todos)].args.tasks]_vars

FailedStatusAndTodoCallsAwaitMerge ==
    /\ BatchDone
    /\ ~FoldThrows(outputs)
    /\ Len(outputs) = 2
    /\ outputs[1].toolName = "message_update"
    /\ IsFailureDoc(outputs[1].result)
    /\ outputs[2].toolName = "todo"
    /\ Get(envLog[2].response).kind = "timeout"
    /\ current_ui_status = Absent
    /\ current_todo_list = Absent

\* the proposal can be carried out and cannot bring back an image: it has
\* calls, none to the computer tool, and every registered one is valid
ImagelessProposal ==
    LET calls == Actions(agentOutcome) IN
    /\ Len(calls) >= 1
    /\ \A i \in 1..Len(calls) :
         /\ calls[i].name # "computer"
         /\ Registered(calls[i]) => ValidCall(calls[i])

\* the run is acting on, or about to ask again for, an imageless proposal
\* made for the present conversation
InARut ==
    /\ pc \in {"agent", "tools"}
    /\ oracleInput = Some(chat_history)
    /\ ImagelessProposal

====
